---- MODULE Spec2Model ----
(***************************************************************************)
(* Model of weather_collector.py: one run of main() is                     *)
(*   fetch_weather_data -> append_raw_log -> append_temperature_history    *)
(*   -> recompute_daily_summary                                            *)
(* over three files (raw log, history, daily summary) that persist from    *)
(* one run to the next.                                                    *)
(***************************************************************************)
EXTENDS Integers, Sequences, FiniteSets, TLC

----------------------------------------------------------------------------
(* Bounds of the model *)

\* number of runs of main() in one behaviour
MaxRuns == 2
\* observations fetched over all runs of one behaviour
MaxTotal == 2

\* Retry(total=5): retries after the initial attempt
RetryTotal == 5
\* Retry(status_forcelist=[500, 502, 503, 504])
StatusForcelist == {500, 502, 503, 504}

----------------------------------------------------------------------------
(* Observations of the upstream payload *)

Fields == {"RECORDED_DATE", "RECORDED_TIME", "DISTRICT", "TALUKNAME",
           "STATION_NAME", "TEMPERATURE"}

\* a JSON scalar: a number (num) or a string (str)
JNum(n) == [t |-> "num", n |-> n, s |-> ""]
JStr(s) == [t |-> "str", n |-> 0, s |-> s]

Observation(d, st, temp) ==
    [RECORDED_DATE |-> d, RECORDED_TIME |-> "10:15", DISTRICT |-> "D",
     TALUKNAME |-> "T", STATION_NAME |-> st, TEMPERATURE |-> temp]

\* an observation without its STATION_NAME field
NoStation(d, temp) ==
    [RECORDED_DATE |-> d, RECORDED_TIME |-> "10:15", DISTRICT |-> "D",
     TALUKNAME |-> "T", TEMPERATURE |-> temp]

ObsPool ==
    << Observation("2024-01-02T00:00:00", "A", JNum(21)),
       Observation("2024-01-01T23:45:00", "B", JNum(19)),
       Observation("2024-01-01T23:45:00", "B", JStr("23")),
       Observation("2024-01-01", "B", JStr("nan")),
       Observation("2024-01-01", "A", JStr("NA")),
       Observation("31/01/2024", "A", JNum(19)),
       NoStation("2024-01-01", JNum(19)) >>

Range(f) == {f[i] : i \in DOMAIN f}

Obs == Range(ObsPool)

\* the observation lists of length at most n
Lists(n) == UNION {[1..k -> Obs] : k \in 0..n}

----------------------------------------------------------------------------
(* JSON texts.  A text is a core wrapped in `wraps` layers of JSON string  *)
(* encoding: the core is a list of observations, another JSON value        *)
(* ("other": an object, a number, null) or text that is not JSON at all    *)
(* ("garbage").  json.dumps adds a layer, json.loads removes one.          *)

Text(k, core, recs) == [wraps |-> k, core |-> core, records |-> recs]

\* json.dumps of a list of observations
DumpsList(recs) == Text(0, "list", recs)

\* json.dumps of a string holding the text t
DumpsStr(t) == [t EXCEPT !.wraps = @ + 1]

\* Python values json.loads produces: a str (holding a text), a list, or
\* another value; err marks a raised exception
PyErr == [err |-> TRUE, type |-> "none", wraps |-> 0, core |-> "garbage", records |-> <<>>]
PyStr(t) == [err |-> FALSE, type |-> "str", wraps |-> t.wraps, core |-> t.core,
             records |-> t.records]
PyList(recs) == [err |-> FALSE, type |-> "list", wraps |-> 0, core |-> "list",
                 records |-> recs]
PyOther == [err |-> FALSE, type |-> "other", wraps |-> 0, core |-> "other", records |-> <<>>]

\* the text a Python str holds
StrText(v) == Text(v.wraps, v.core, v.records)

\* json.loads(x): x must be a str; its text must be JSON
JsonLoads(x) ==
    IF x.err \/ x.type # "str" THEN PyErr
    ELSE LET t == StrText(x) IN
         IF t.wraps > 0 THEN PyStr([t EXCEPT !.wraps = @ - 1])
         ELSE CASE t.core = "list" -> PyList(t.records)
                [] t.core = "other" -> PyOther
                [] OTHER -> PyErr

----------------------------------------------------------------------------
(* HTTP: what one attempt of session.post gives *)

None == [none |-> TRUE, records |-> <<>>]
Some(recs) == [none |-> FALSE, records |-> recs]

NoBody == Text(0, "garbage", <<>>)
Transport(kind) == [kind |-> kind, status |-> 0, body |-> NoBody]
Http(status, body) == [kind |-> "http", status |-> status, body |-> body]

\* the bodies an upstream may send with observation lists of at most n rows
Bodies(n) ==
    {DumpsStr(DumpsList(p)) : p \in Lists(n)}
    \cup {DumpsList(<<ObsPool[1]>>),
          DumpsStr(DumpsStr(DumpsList(<<ObsPool[1]>>))),
          Text(1, "other", <<>>),
          Text(0, "garbage", <<>>), Text(1, "garbage", <<>>)}

Responses(n) ==
    {Transport("timeout")}
    \cup {Http(s, NoBody) : s \in {404, 503}}
    \cup {Http(200, b) : b \in Bodies(n)}

\* urllib3 Retry: a transport error or a status of the forcelist is retried
Retryable(resp) ==
    \/ resp.kind # "http"
    \/ resp.status \in StatusForcelist

\* response.raise_for_status()
RaisesForStatus(resp) == resp.status >= 400

FetchResultNoListCheck(resp) ==
    IF Retryable(resp) \/ RaisesForStatus(resp) THEN None
    ELSE LET outer == JsonLoads(PyStr(resp.body))
             payload == JsonLoads(outer)
         IN IF payload.err THEN None ELSE Some(payload.records)

FetchResultSingleDecode(resp) ==
    IF Retryable(resp) \/ RaisesForStatus(resp) THEN None
    ELSE LET payload == JsonLoads(PyStr(resp.body))
         IN IF payload.err \/ payload.type # "list" THEN None
            ELSE Some(payload.records)

\* fetch_weather_data on the final response of session.post:
\* the try body of lines 54-69 under the except of lines 71-73
FetchResult(resp) ==
    IF Retryable(resp) \/ RaisesForStatus(resp) THEN None
    ELSE LET outer == JsonLoads(PyStr(resp.body))
             payload == JsonLoads(outer)
         IN IF payload.err \/ payload.type # "list" THEN None
            ELSE Some(payload.records)

----------------------------------------------------------------------------
(* Files: a file is absent, or holds a sequence of lines *)

Absent == [exists |-> FALSE, lines |-> <<>>]
File(lines) == [exists |-> TRUE, lines |-> lines]

\* open(mode "a") then write: the file is created when absent
AppendLines(f, new) == File(f.lines \o new)

IsPrefix(s, t) == Len(s) <= Len(t) /\ SubSeq(t, 1, Len(s)) = s

----------------------------------------------------------------------------
(* append_raw_log *)

RawLogEntry(now, recs) == [fetched_at |-> now, records |-> recs]

AppendRawLogTruncate(f, now, recs) == File(<<RawLogEntry(now, recs)>>)

AppendRawLog(f, now, recs) == AppendLines(f, <<RawLogEntry(now, recs)>>)

----------------------------------------------------------------------------
(* append_temperature_history *)

HistoryHeader == <<"date", "time", "district", "taluk", "station", "temperature">>

\* datetime.fromisoformat(s).date().isoformat(); "" when fromisoformat raises
IsoDate(s) ==
    CASE s = "2024-01-01" -> "2024-01-01"
      [] s = "2024-01-01T23:45:00" -> "2024-01-01"
      [] s = "2024-01-02T00:00:00" -> "2024-01-02"
      [] OTHER -> ""

\* the text csv.writer writes for a JSON scalar: str(number), or the string
CsvText(v) ==
    IF v.t = "str" THEN v.s
    ELSE CASE v.n = 19 -> "19"
           [] v.n = 21 -> "21"
           [] v.n = 23 -> "23"

\* the exception the loop body of lines 111-120 raises on r, "" when none:
\* r["RECORDED_DATE"] is read first, then parsed, then the other fields
RowError(r) ==
    IF "RECORDED_DATE" \notin DOMAIN r THEN "KeyError"
    ELSE IF IsoDate(r.RECORDED_DATE) = "" THEN "ValueError"
    ELSE IF Fields \ DOMAIN r # {} THEN "KeyError"
    ELSE ""

HistoryRow(r) ==
    <<IsoDate(r.RECORDED_DATE), r.RECORDED_TIME, r.DISTRICT, r.TALUKNAME,
      r.STATION_NAME, CsvText(r.TEMPERATURE)>>

\* index of the first observation the loop raises on, Len + 1 when none
FirstBad(recs) ==
    IF \E i \in 1..Len(recs) : RowError(recs[i]) # ""
    THEN CHOOSE i \in 1..Len(recs) :
            /\ RowError(recs[i]) # ""
            /\ \A j \in 1..(i - 1) : RowError(recs[j]) = ""
    ELSE Len(recs) + 1

RowsWrittenAllOrNone(recs) ==
    IF FirstBad(recs) <= Len(recs) THEN <<>>
    ELSE [i \in 1..Len(recs) |-> HistoryRow(recs[i])]

\* the rows written before the loop ends or raises
RowsWritten(recs) == [i \in 1..(FirstBad(recs) - 1) |-> HistoryRow(recs[i])]

NormalizeError(recs) ==
    IF FirstBad(recs) <= Len(recs) THEN RowError(recs[FirstBad(recs)]) ELSE ""

AppendTemperatureHistoryAlwaysHeader(f, recs) ==
    AppendLines(f, <<HistoryHeader>> \o RowsWritten(recs))

AppendTemperatureHistoryTruncate(f, recs) ==
    File(<<HistoryHeader>> \o RowsWritten(recs))

\* the file after append_temperature_history(recs), returned or raised
AppendTemperatureHistory(f, recs) ==
    AppendLines(f, (IF f.exists THEN <<>> ELSE <<HistoryHeader>>) \o RowsWritten(recs))

----------------------------------------------------------------------------
(* recompute_daily_summary *)

SummaryHeader == <<"date", "town", "max_temperature", "min_temperature">>

\* Python floats: a number, or NaN
Float(v) == [nan |-> FALSE, val |-> v]
NaN == [nan |-> TRUE, val |-> 0]

\* float(text): err when it raises ValueError
ParseFloat(text) ==
    CASE text = "19" -> [err |-> FALSE, f |-> Float(19)]
      [] text = "21" -> [err |-> FALSE, f |-> Float(21)]
      [] text = "23" -> [err |-> FALSE, f |-> Float(23)]
      [] text = "nan" -> [err |-> FALSE, f |-> NaN]
      [] OTHER -> [err |-> TRUE, f |-> NaN]

\* a > b and a < b of floats: every comparison with NaN is false
FloatGT(a, b) == ~a.nan /\ ~b.nan /\ a.val > b.val
FloatLT(a, b) == ~a.nan /\ ~b.nan /\ a.val < b.val

\* max(a, b) and min(a, b) of Python: b only when it compares beyond a
PyMax(a, b) == IF FloatGT(b, a) THEN b ELSE a
PyMin(a, b) == IF FloatLT(b, a) THEN b ELSE a

\* csv.DictReader: the first line names the fields of the lines after it
FieldNames(lines) == IF lines = <<>> THEN <<>> ELSE Head(lines)
DictRows(lines) == IF lines = <<>> THEN <<>> ELSE Tail(lines)
HasField(names, name) == \E i \in 1..Len(names) : names[i] = name
\* row[name]; with a repeated field name the last column wins
Get(names, row, name) ==
    row[CHOOSE i \in 1..Len(names) :
           /\ names[i] = name
           /\ \A j \in (i + 1)..Len(names) : names[j] # name]

\* the exception the loop body of lines 137-138 raises on a row, "" when none
AggRowError(names, row) ==
    IF ~HasField(names, "date") \/ ~HasField(names, "station")
       \/ ~HasField(names, "temperature") THEN "KeyError"
    ELSE IF ParseFloat(Get(names, row, "temperature")).err THEN "ValueError"
    ELSE ""

EmptyAggregates == [k \in {} |-> [max |-> NaN, min |-> NaN]]

UpdateSwapped(agg, key, temp) ==
    IF key \notin DOMAIN agg
    THEN (key :> [max |-> temp, min |-> temp]) @@ agg
    ELSE [agg EXCEPT ![key] = [max |-> PyMin(@.max, temp), min |-> PyMax(@.min, temp)]]

UpdateLast(agg, key, temp) ==
    IF key \notin DOMAIN agg
    THEN (key :> [max |-> temp, min |-> temp]) @@ agg
    ELSE [agg EXCEPT ![key] = [max |-> temp, min |-> PyMin(@.min, temp)]]

\* lines 140-144: aggregates after one more row of the key
Update(agg, key, temp) ==
    IF key \notin DOMAIN agg
    THEN (key :> [max |-> temp, min |-> temp]) @@ agg
    ELSE [agg EXCEPT ![key] = [max |-> PyMax(@.max, temp), min |-> PyMin(@.min, temp)]]

\* lines 136-144: the aggregates of rows i.. of the file, onto agg
RECURSIVE Aggregate(_, _, _, _)
Aggregate(names, rows, i, agg) ==
    IF i > Len(rows) THEN agg
    ELSE Aggregate(names, rows, i + 1,
                   Update(agg,
                          <<Get(names, rows[i], "date"), Get(names, rows[i], "station")>>,
                          ParseFloat(Get(names, rows[i], "temperature")).f))

\* the exception the read loop raises, "" when it reads the file to its end
AggregateError(lines) ==
    LET names == FieldNames(lines)
        rows == DictRows(lines)
    IN IF \E i \in 1..Len(rows) : AggRowError(names, rows[i]) # ""
       THEN AggRowError(names, rows[CHOOSE i \in 1..Len(rows) :
                                       /\ AggRowError(names, rows[i]) # ""
                                       /\ \A j \in 1..(i - 1) :
                                             AggRowError(names, rows[j]) = ""])
       ELSE ""

AggregatesOfLastRow(lines) ==
    Aggregate(FieldNames(lines),
              IF DictRows(lines) = <<>> THEN <<>>
              ELSE <<DictRows(lines)[Len(DictRows(lines))]>>,
              1, EmptyAggregates)

Aggregates(lines) == Aggregate(FieldNames(lines), DictRows(lines), 1, EmptyAggregates)

\* Python's < of str (code points), on the strings of the model
StrOrder ==
    <<"", "10:15", "19", "2024-01-01", "2024-01-02", "21", "23", "A", "B", "D",
      "NA", "T", "date", "district", "nan", "station", "taluk", "temperature", "time">>
StrRank(s) == CHOOSE i \in 1..Len(StrOrder) : StrOrder[i] = s
StrLT(a, b) == StrRank(a) < StrRank(b)

KeyLTStationFirst(a, b) == StrLT(a[2], b[2]) \/ (a[2] = b[2] /\ StrLT(a[1], b[1]))

\* Python's < of the (date, town) tuples
KeyLT(a, b) == StrLT(a[1], b[1]) \/ (a[1] = b[1] /\ StrLT(a[2], b[2]))

\* sorted(keys)
RECURSIVE Sorted(_)
Sorted(keys) ==
    IF keys = {} THEN <<>>
    ELSE LET least == CHOOSE k \in keys : \A o \in keys \ {k} : KeyLT(k, o)
         IN <<least>> \o Sorted(keys \ {least})

SummaryRow(key, values) == <<key[1], key[2], values.max, values.min>>

\* lines 146-161: the lines written to the summary file
SummaryLines(agg) ==
    LET order == Sorted(DOMAIN agg)
    IN <<SummaryHeader>> \o [i \in 1..Len(order) |-> SummaryRow(order[i], agg[order[i]])]

WriteSummaryAppend(f, agg) == AppendLines(f, SummaryLines(agg))

\* open(mode "w") then write: the file holds the new lines only
WriteSummary(f, agg) == File(SummaryLines(agg))

\* an exception: its type and the function it was raised in
Raised(type, where) == [type |-> type, raisedIn |-> where]
NoExc == Raised("", "")

RecomputeDailySummaryWritesFirst(hist, summ, ioRead, ioWrite) ==
    IF ~hist.exists THEN [exc |-> NoExc, summary |-> summ]
    ELSE IF ioRead \/ ioWrite
         THEN [exc |-> Raised("OSError", "recompute_daily_summary"), summary |-> summ]
    ELSE IF AggregateError(hist.lines) # ""
         THEN [exc |-> Raised(AggregateError(hist.lines), "recompute_daily_summary"),
               summary |-> File(<<>>)]
    ELSE [exc |-> NoExc, summary |-> WriteSummary(summ, Aggregates(hist.lines))]

\* recompute_daily_summary(): the exception it raises (NoExc when it returns)
\* and the summary file it leaves; ioRead and ioWrite are the storage faults
\* of its two open() calls
RecomputeDailySummary(hist, summ, ioRead, ioWrite) ==
    IF ~hist.exists THEN [exc |-> NoExc, summary |-> summ]
    ELSE IF ioRead
         THEN [exc |-> Raised("OSError", "recompute_daily_summary"), summary |-> summ]
    ELSE IF AggregateError(hist.lines) # ""
         THEN [exc |-> Raised(AggregateError(hist.lines), "recompute_daily_summary"),
               summary |-> summ]
    ELSE IF ioWrite
         THEN [exc |-> Raised("OSError", "recompute_daily_summary"), summary |-> summ]
    ELSE [exc |-> NoExc, summary |-> WriteSummary(summ, Aggregates(hist.lines))]

----------------------------------------------------------------------------
(* main *)

VARIABLES
    pc,        \* where main is: Idle, Fetch, Archive, Normalize, Aggregate,
               \* or how the last run or call ended
    run,       \* runs started so far; the clock of fetched_at
    attempt,   \* HTTP attempts the session.post in progress has made
    response,  \* what session.post gave fetch_weather_data
    payload,   \* the value fetch_weather_data returned to main
    exc,       \* the exception that left main or the call, NoExc when none
    rawLog,    \* RAW_LOG_FILE
    history,   \* HISTORY_FILE
    summary,   \* DAILY_SUMMARY_FILE
    before,    \* the three files as the run in progress found them
    runLog,    \* outcome, payload and exception of every finished run, in run
               \* order
    calls,     \* direct calls of recompute_daily_summary made so far
    proc,      \* overlapping calls of append_temperature_history: where each
               \* is, its file_exists, its payload and its unwritten buffer
    trace      \* of the overlapping calls: who wrote each history line, the
               \* order they started in, whether two were ever in progress
               \* together

vars == <<pc, run, attempt, response, payload, exc, rawLog, history, summary,
          before, runLog, calls, proc, trace>>

\* the processes that may call append_temperature_history at the same time
Procs == {1, 2}

\* a call that has not started, with the payload it is given
NotStarted(recs) ==
    [at |-> "start", fileExists |-> FALSE, payload |-> recs, next |-> 1, buf |-> <<>>]

NoTrace == [owner |-> <<>>, started |-> <<>>, overlapped |-> FALSE]

Terminal == {"Done", "Skip", "Failed"}
Resting == {"Idle"} \cup Terminal

RECURSIVE Fetched(_)
\* observations of the payloads of the finished runs
Fetched(log) ==
    IF log = <<>> THEN 0
    ELSE Len(Head(log).payload.records) + Fetched(Tail(log))

\* the responses the model lets the upstream give to the run in progress
Upstream == Responses(MaxTotal - Fetched(runLog))

Init ==
    /\ pc = "Idle"
    /\ run = 0
    /\ attempt = 0
    /\ response = Transport("none")
    /\ payload = None
    /\ exc = NoExc
    /\ rawLog = Absent
    /\ history = Absent
    /\ summary = Absent
    /\ before = [rawLog |-> Absent, history |-> Absent, summary |-> Absent]
    /\ runLog = <<>>
    /\ calls = 0
    /\ proc = [p \in Procs |-> NotStarted(<<>>)]
    /\ trace = NoTrace

NextStageSkipsNormalize(stage) ==
    CASE stage = "Fetch"     -> "Archive"
      [] stage = "Archive"   -> "Aggregate"
      [] stage = "Normalize" -> "Aggregate"
      [] stage = "Aggregate" -> "Done"

\* lines 172-183: the statement main goes on to when a stage has returned
NextStage(stage) ==
    CASE stage = "Fetch"     -> "Archive"
      [] stage = "Archive"   -> "Normalize"
      [] stage = "Normalize" -> "Aggregate"
      [] stage = "Aggregate" -> "Done"

\* the run ends: its outcome, the exception that leaves main, its payload
Finish(outcome, e, p) ==
    /\ pc' = outcome
    /\ exc' = e
    /\ runLog' = Append(runLog, [outcome |-> outcome, payload |-> p, exc |-> e])

WriteStageContained(e, p) == Finish("Skip", NoExc, p)

\* lines 178-180 stand in no try block: what a write stage raises leaves main
WriteStageRaises(e, p) == Finish("Failed", e, p)

\* the scheduler starts main
StartRun ==
    /\ pc \in Resting
    /\ run < MaxRuns
    /\ pc' = "Fetch"
    /\ run' = run + 1
    /\ attempt' = 0
    /\ payload' = None
    /\ exc' = NoExc
    /\ response' = Transport("none")
    /\ before' = [rawLog |-> rawLog, history |-> history, summary |-> summary]
    /\ UNCHANGED <<rawLog, history, summary, runLog, calls, proc, trace>>

\* session.post: an attempt fails in a way the Retry budget still covers
ExhaustedNever(retries) == FALSE

\* Retry(total=5): after RetryTotal retries the adapter stops retrying
Exhausted(retries) == retries >= RetryTotal

\* a retryable outcome with retries left: the adapter sends the request again
HttpRetry ==
    /\ pc = "Fetch"
    /\ ~Exhausted(attempt)
    /\ \E resp \in Upstream : Retryable(resp)
    /\ attempt' = attempt + 1
    /\ UNCHANGED <<pc, run, response, payload, exc, rawLog, history, summary, before,
                   runLog, calls, proc, trace>>

SkipsRunNever(p) == FALSE

\* line 174: payload is None
SkipsRun(p) == p.none

\* session.post gives its final response or raises; fetch_weather_data
\* returns and main takes line 174
FetchReturn ==
    /\ pc = "Fetch"
    /\ \E resp \in Upstream :
          /\ Retryable(resp) => Exhausted(attempt)
          /\ response' = resp
          /\ payload' = FetchResult(resp)
    /\ attempt' = 0
    /\ IF SkipsRun(payload')
       THEN Finish("Skip", NoExc, payload')
       ELSE /\ pc' = NextStage("Fetch")
            /\ UNCHANGED <<exc, runLog>>
    /\ UNCHANGED <<run, rawLog, history, summary, before, calls, proc, trace>>

\* line 178: append_raw_log(payload)
Archive ==
    /\ pc = "Archive"
    /\ \E io \in BOOLEAN :
          IF io
          THEN /\ WriteStageRaises(Raised("OSError", "append_raw_log"), payload)
               /\ UNCHANGED rawLog
          ELSE /\ rawLog' = AppendRawLog(rawLog, run, payload.records)
               /\ pc' = NextStage("Archive")
               /\ UNCHANGED <<exc, runLog>>
    /\ UNCHANGED <<run, attempt, response, payload, history, summary, before,
                   calls, proc, trace>>

\* line 179: append_temperature_history(payload)
Normalize ==
    /\ pc = "Normalize"
    /\ \E io \in BOOLEAN :
          IF io
          THEN /\ WriteStageRaises(Raised("OSError", "append_temperature_history"),
                                   payload)
               /\ UNCHANGED history
          ELSE /\ history' = AppendTemperatureHistory(history, payload.records)
               /\ IF NormalizeError(payload.records) # ""
                  THEN WriteStageRaises(Raised(NormalizeError(payload.records),
                                               "append_temperature_history"), payload)
                  ELSE /\ pc' = NextStage("Normalize")
                       /\ UNCHANGED <<exc, runLog>>
    /\ UNCHANGED <<run, attempt, response, payload, rawLog, summary, before,
                   calls, proc, trace>>

\* lines 180-183: recompute_daily_summary(), then the closing prints
AggregateStep ==
    /\ pc = "Aggregate"
    /\ \E ioRead, ioWrite \in BOOLEAN :
          LET r == RecomputeDailySummary(history, summary, ioRead, ioWrite)
          IN /\ summary' = r.summary
             /\ IF r.exc # NoExc
                THEN WriteStageRaises(r.exc, payload)
                ELSE Finish(NextStage("Aggregate"), NoExc, payload)
    /\ UNCHANGED <<run, attempt, response, payload, rawLog, history, before,
                   calls, proc, trace>>

Next ==
    \/ StartRun
    \/ HttpRetry
    \/ FetchReturn
    \/ Archive
    \/ Normalize
    \/ AggregateStep

Spec == Init /\ [][Next]_vars

\* one HTTP attempt: every attempt ends, by the timeout of line 58 at the
\* latest, in a retry or in the session's final outcome
FetchStep == HttpRetry \/ FetchReturn

\* the next step of the run in progress
RunStep == FetchStep \/ Archive \/ Normalize \/ AggregateStep

\* a run that has started keeps going: the attempts and the three write
\* stages are synchronous calls of one thread; when a run starts is left to
\* the scheduler
Fairness == WF_vars(RunStep)

SpecFair == Init /\ [][Next]_vars /\ Fairness

----------------------------------------------------------------------------
(* recompute_daily_summary called on its own, on the files runs can leave *)

\* direct calls in one behaviour
MaxCalls == 2

GoodRows == {HistoryRow(o) : o \in {x \in Obs : RowError(x) = ""}}

\* the history files runs can leave: the header, then rows of observations
HistoryFiles ==
    {Absent} \cup
    {File(<<HistoryHeader>> \o rows) :
        rows \in UNION {[1..k -> GoodRows] : k \in 0..MaxTotal}}

\* the summary files runs can leave beside the history h: none, or the
\* summary a Done run wrote when h held its first n lines
SummaryFiles(h) ==
    {Absent} \cup
    {WriteSummary(Absent, Aggregates(SubSeq(h.lines, 1, n))) :
        n \in {m \in 1..Len(h.lines) : AggregateError(SubSeq(h.lines, 1, m)) = ""}}

InitCalls ==
    /\ pc = "Idle"
    /\ run = 0
    /\ attempt = 0
    /\ response = Transport("none")
    /\ payload = None
    /\ exc = NoExc
    /\ rawLog = Absent
    /\ history \in HistoryFiles
    /\ summary \in SummaryFiles(history)
    /\ before = [rawLog |-> rawLog, history |-> history, summary |-> summary]
    /\ runLog = <<>>
    /\ calls = 0
    /\ proc = [p \in Procs |-> NotStarted(<<>>)]
    /\ trace = NoTrace

RecomputeCall ==
    /\ pc \in {"Idle", "Returned", "Raised"}
    /\ calls < MaxCalls
    /\ calls' = calls + 1
    /\ \E ioRead, ioWrite \in BOOLEAN :
          LET r == RecomputeDailySummary(history, summary, ioRead, ioWrite)
          IN /\ summary' = r.summary
             /\ exc' = r.exc
             /\ pc' = IF r.exc = NoExc THEN "Returned" ELSE "Raised"
    /\ UNCHANGED <<run, attempt, response, payload, rawLog, history, before, runLog,
                   proc, trace>>

NextCalls == RecomputeCall

SpecCalls == InitCalls /\ [][NextCalls]_vars

-----------------------------------------------------------------------------
(* Overlapping runs.  Two processes call append_temperature_history on the *)
(* one history file with nothing to exclude each other.  A call is split   *)
(* where it touches the file: the existence check, the open, the writes    *)
(* the file object passes on when its buffer fills, and the close.         *)

\* observations of one overlapping payload
MaxRows == 2

\* the payloads given to the overlapping calls: well-formed observations
OverlapObs == {ObsPool[1], ObsPool[2]}
OverlapPayloads == UNION {[1..k -> OverlapObs] : k \in 0..MaxRows}

InitOverlap ==
    /\ pc = "Idle"
    /\ run = 0
    /\ attempt = 0
    /\ response = Transport("none")
    /\ payload = None
    /\ exc = NoExc
    /\ rawLog = Absent
    /\ history \in {Absent, File(<<HistoryHeader>>)}
    /\ summary = Absent
    /\ before = [rawLog |-> rawLog, history |-> history, summary |-> summary]
    /\ runLog = <<>>
    /\ calls = 0
    /\ proc \in [Procs -> {NotStarted(recs) : recs \in OverlapPayloads}]
    /\ trace = [owner |-> [i \in 1..Len(history.lines) |-> 0],
                started |-> <<>>, overlapped |-> FALSE]

\* the call of p is between its existence check and its close
InCall(p) == proc[p].at \in {"open", "rows"}

WritesHeaderAlways(fileExists) == TRUE

\* line 100: if not file_exists
WritesHeader(fileExists) == ~fileExists

\* the history file after p's buffer was written to it, and who wrote what
Written(p) ==
    /\ history' = AppendLines(history, proc[p].buf)
    /\ trace' = [trace EXCEPT
                    !.owner = @ \o [i \in 1..Len(proc[p].buf) |-> p]]

\* line 95: file_exists = HISTORY_FILE.exists()
CheckExists(p) ==
    /\ proc[p].at = "start"
    /\ proc' = [proc EXCEPT ![p].at = "open", ![p].fileExists = history.exists]
    /\ trace' = [trace EXCEPT
                    !.started = Append(@, p),
                    !.overlapped = @ \/ \E q \in Procs \ {p} : InCall(q)]
    /\ UNCHANGED <<pc, run, attempt, response, payload, exc, rawLog, history, summary,
                   before, runLog, calls>>

\* lines 97-108: open in mode "a", which creates a missing file, and the
\* header handed to the file object when file_exists was false
OpenAppend(p) ==
    /\ proc[p].at = "open"
    /\ history' = IF history.exists THEN history ELSE File(<<>>)
    /\ proc' = [proc EXCEPT
                  ![p].at = "rows",
                  ![p].buf = IF WritesHeader(proc[p].fileExists)
                             THEN <<HistoryHeader>> ELSE <<>>]
    /\ UNCHANGED <<pc, run, attempt, response, payload, exc, rawLog, summary, before,
                   runLog, calls, trace>>

\* lines 110-120: one turn of the loop hands one row to the file object
WriteRow(p) ==
    /\ proc[p].at = "rows"
    /\ proc[p].next <= Len(proc[p].payload)
    /\ proc' = [proc EXCEPT
                  ![p].next = @ + 1,
                  ![p].buf = Append(@, HistoryRow(proc[p].payload[proc[p].next]))]
    /\ UNCHANGED <<pc, run, attempt, response, payload, exc, rawLog, history, summary,
                   before, runLog, calls, trace>>

\* the file object writes out what it holds when its buffer fills: after
\* some row, which one depends on the sizes of the rows
Flush(p) ==
    /\ proc[p].at = "rows"
    /\ proc[p].next <= Len(proc[p].payload)
    /\ proc[p].buf # <<>>
    /\ Written(p)
    /\ proc' = [proc EXCEPT ![p].buf = <<>>]
    /\ UNCHANGED <<pc, run, attempt, response, payload, exc, rawLog, summary, before,
                   runLog, calls>>

\* the with block of line 97 ends after the loop: the rest is written out
\* and the file closed
Close(p) ==
    /\ proc[p].at = "rows"
    /\ proc[p].next > Len(proc[p].payload)
    /\ Written(p)
    /\ proc' = [proc EXCEPT ![p].at = "done", ![p].buf = <<>>]
    /\ UNCHANGED <<pc, run, attempt, response, payload, exc, rawLog, summary, before,
                   runLog, calls>>

NextOverlap ==
    \E p \in Procs :
        \/ CheckExists(p)
        \/ OpenAppend(p)
        \/ WriteRow(p)
        \/ Flush(p)
        \/ Close(p)

SpecOverlap == InitOverlap /\ [][NextOverlap]_vars

----------------------------------------------------------------------------
(* Properties *)

StoresAsBefore ==
    /\ rawLog = before.rawLog
    /\ history = before.history
    /\ summary = before.summary

\* C1: in a run whose fetch_weather_data returned None, main is at no write
\* stage: the run ends in Skip with no exception leaving main, and the raw
\* log, the history and the summary are as the run found them.
C1_SkipLeavesStores ==
    (pc \notin {"Idle", "Fetch"} /\ payload.none) =>
        /\ pc = "Skip"
        /\ exc = NoExc
        /\ StoresAsBefore
        /\ runLog[Len(runLog)] = [outcome |-> "Skip", payload |-> None, exc |-> NoExc]

\* a skipped run that found all three files left by an earlier run
C1_Witness ==
    /\ pc = "Skip"
    /\ payload.none
    /\ rawLog.exists /\ history.exists /\ summary.exists
    /\ Len(history.lines) > 1

\* the response was delivered with a success status
Delivered(resp) == resp.kind = "http" /\ resp.status < 400

\* the body is a JSON string whose content is the JSON text of a list
DoubleEncodedList(body) == body.wraps = 1 /\ body.core = "list"

\* some observation of the list lacks a required field
LacksField(recs) == \E i \in 1..Len(recs) : Fields \ DOMAIN recs[i] # {}

\* the body breaks the upstream contract: not a double-encoded list, or a
\* list with an observation that lacks a required field
ContractViolation(resp) ==
    /\ Delivered(resp)
    /\ \/ ~DoubleEncodedList(resp.body)
       \/ LacksField(resp.body.records)

RECURSIVE DoneRows(_)
\* the rows of the observations of the Done runs, in run order and, within a
\* run, in payload order
DoneRows(log) ==
    IF log = <<>> THEN <<>>
    ELSE LET r == Head(log)
         IN (IF r.outcome = "Done"
             THEN [i \in 1..Len(r.payload.records) |-> HistoryRow(r.payload.records[i])]
             ELSE <<>>) \o DoneRows(Tail(log))

RECURSIVE DoneCount(_)
\* k_1 + ... + k_N over the Done runs
DoneCount(log) ==
    IF log = <<>> THEN 0
    ELSE (IF Head(log).outcome = "Done" THEN Len(Head(log).payload.records) ELSE 0)
         + DoneCount(Tail(log))

NoneFailed(log) == \A i \in 1..Len(log) : log[i].outcome # "Failed"
SomeDone(log) == \E i \in 1..Len(log) : log[i].outcome = "Done"

\* after runs that ended Done or Skip only, the history file is absent when
\* no run was Done, and else the header followed by the rows of the Done runs
HistoryOfDoneRuns ==
    (pc \in Resting /\ NoneFailed(runLog)) =>
        IF SomeDone(runLog)
        THEN /\ history = File(<<HistoryHeader>> \o DoneRows(runLog))
             /\ Len(history.lines) = 1 + DoneCount(runLog)
        ELSE history = Absent

\* a step keeps the history file's content as a prefix of its new content
HistoryGrows ==
    /\ history.exists => history'.exists
    /\ IsPrefix(history.lines, history'.lines)

\* C3: starting from an absent history file, after runs of which N ended Done
\* with k_1..k_N observations and the others in Skip, the history file is the
\* header followed by the k_1+...+k_N rows in run order and payload order; and
\* every step leaves the previous content of the file as a prefix of the new.
C3_AppendOnlyHistory == []HistoryOfDoneRuns /\ [][HistoryGrows]_vars

\* two Done runs, each with at least one observation, have written the file
C3_Witness ==
    /\ pc = "Done"
    /\ Len(runLog) = 2
    /\ \A i \in 1..2 : runLog[i].outcome = "Done" /\ Len(runLog[i].payload.records) >= 1
    /\ Len(history.lines) = 3

DataRows(f) == IF f.lines = <<>> THEN <<>> ELSE Tail(f.lines)

\* columns of a history row: date is the 1st, station the 5th, temperature
\* the 6th
RowKey(row) == <<row[1], row[5]>>
RowTemp(row) == ParseFloat(row[6]).f

HistoryKeys == {RowKey(DataRows(history)[i]) : i \in 1..Len(DataRows(history))}

\* positions of the history rows of key k
RowsOf(k) == {i \in 1..Len(DataRows(history)) : RowKey(DataRows(history)[i]) = k}

\* the temperatures of key k that are numbers
NumbersOf(k) == {RowTemp(DataRows(history)[i]).val :
                    i \in {j \in RowsOf(k) : ~RowTemp(DataRows(history)[j]).nan}}

\* the temperature of the first history row of key k
FirstTempOf(k) == RowTemp(DataRows(history)[CHOOSE i \in RowsOf(k) : \A j \in RowsOf(k) : i <= j])

\* the summary has one row for each (date, station) of the history, no other
OneRowPerKey ==
    /\ {<<DataRows(summary)[i][1], DataRows(summary)[i][2]>> :
           i \in 1..Len(DataRows(summary))} = HistoryKeys
    /\ Len(DataRows(summary)) = Cardinality(HistoryKeys)

\* x is the largest (smallest) temperature of key k, rows that hold NaN left
\* aside; NaN when the key has no other
IsMaxOf(x, k) ==
    IF NumbersOf(k) = {} THEN x.nan
    ELSE ~x.nan /\ x.val \in NumbersOf(k) /\ \A t \in NumbersOf(k) : x.val >= t
IsMinOf(x, k) ==
    IF NumbersOf(k) = {} THEN x.nan
    ELSE ~x.nan /\ x.val \in NumbersOf(k) /\ \A t \in NumbersOf(k) : x.val <= t

\* C5 as stated: when a run ends in Done the summary has exactly one row per
\* (date, station) of the whole history, holding the maximum and the minimum
\* of the temperatures of the key's rows.
C5_Original ==
    pc = "Done" =>
        /\ OneRowPerKey
        /\ \A i \in 1..Len(DataRows(summary)) :
              LET row == DataRows(summary)[i]
              IN /\ IsMaxOf(row[3], <<row[1], row[2]>>)
                 /\ IsMinOf(row[4], <<row[1], row[2]>>)

\* C5, amended: when a run ends in Done the summary has exactly one row per
\* (date, station) of the whole history and no other; the row holds the
\* maximum and the minimum of the key's temperatures, NaN temperatures left
\* aside, unless the first history row of the key holds NaN: then both
\* columns hold NaN.
C5_SummaryOfHistory ==
    pc = "Done" =>
        /\ OneRowPerKey
        /\ \A i \in 1..Len(DataRows(summary)) :
              LET row == DataRows(summary)[i]
                  k == <<row[1], row[2]>>
              IN IF FirstTempOf(k).nan
                 THEN row[3].nan /\ row[4].nan
                 ELSE IsMaxOf(row[3], k) /\ IsMinOf(row[4], k)

\* a Done run whose rows joined those of an earlier run under one key, with
\* different temperatures
C5_Witness ==
    /\ pc = "Done"
    /\ Len(runLog) = 2
    /\ Len(before.history.lines) = 2
    /\ Len(history.lines) = 3
    /\ Len(summary.lines) = 2
    /\ summary.lines[2][3].val > summary.lines[2][4].val

\* row a of the summary stands before row b in the lexicographic order of
\* (date, station): date compared first, station second
RowBefore(a, b) ==
    \/ StrRank(a[1]) < StrRank(b[1])
    \/ a[1] = b[1] /\ StrRank(a[2]) < StrRank(b[2])

\* C6: the rows of every summary file written are in strictly ascending
\* lexicographic order of (date, station), whatever the order in which the
\* keys first appear in the history; so no key has two rows.
C6_SummarySorted ==
    \A i, j \in 1..Len(DataRows(summary)) :
        i < j => RowBefore(DataRows(summary)[i], DataRows(summary)[j])

\* a summary of two keys whose first rows stand in the history in descending
\* order of (date, station), the later date with the smaller station name
C6_Witness ==
    /\ Len(DataRows(summary)) = 2
    /\ Len(DataRows(history)) = 2
    /\ RowKey(DataRows(history)[1]) = <<"2024-01-02", "A">>
    /\ RowKey(DataRows(history)[2]) = <<"2024-01-01", "B">>

\* a >= b of floats: false when either is NaN
FloatGE(a, b) == ~a.nan /\ ~b.nan /\ a.val >= b.val

\* the first history row of the (date, station) of a summary row holds NaN
FirstIsNaN(row) ==
    /\ <<row[1], row[2]>> \in HistoryKeys
    /\ FirstTempOf(<<row[1], row[2]>>).nan

\* C7 as stated: every row of the summary file has
\* max_temperature >= min_temperature.
C7_Original ==
    \A i \in 1..Len(DataRows(summary)) :
        FloatGE(DataRows(summary)[i][3], DataRows(summary)[i][4])

\* C7, amended: every row of the summary file has
\* max_temperature >= min_temperature, except the rows of the keys whose
\* first history row holds NaN: those hold NaN in both columns.
C7_MaxAtLeastMin ==
    \A i \in 1..Len(DataRows(summary)) :
        LET row == DataRows(summary)[i]
        IN IF FirstIsNaN(row)
           THEN row[3].nan /\ row[4].nan
           ELSE FloatGE(row[3], row[4])

\* a summary row whose maximum is above its minimum
C7_Witness ==
    \E i \in 1..Len(DataRows(summary)) :
        /\ ~DataRows(summary)[i][3].nan
        /\ DataRows(summary)[i][3].val > DataRows(summary)[i][4].val

\* a call of recompute_daily_summary came before, and it was not cut short by
\* a storage fault
CalledBefore == calls >= 1 /\ ~(pc = "Raised" /\ exc.type = "OSError")

\* C8: a call of recompute_daily_summary that follows another, with no history
\* row appended in between, leaves the summary file with the content the
\* earlier call left; and no call changes the history file or the raw log.
C8_RecomputeIdempotent ==
    [][/\ history' = history
       /\ rawLog' = rawLog
       /\ CalledBefore => summary' = summary]_vars

\* two calls were made on a history of several rows; the first replaced a
\* summary that was out of date
C8_Witness ==
    /\ calls = 2
    /\ pc = "Returned"
    /\ Len(DataRows(history)) >= 2
    /\ Len(DataRows(summary)) >= 1
    /\ before.summary.exists
    /\ summary # before.summary

WriteStages == {"append_raw_log", "append_temperature_history", "recompute_daily_summary"}

\* the run has appended its entry to the raw log
Archived == Len(rawLog.lines) = Len(before.rawLog.lines) + 1

\* the run has appended a row for every observation of its payload
Normalized ==
    /\ history.exists
    /\ Len(DataRows(history)) = Len(DataRows(before.history)) + Len(payload.records)

\* C9: once fetch has succeeded, an exception raised in append_raw_log,
\* append_temperature_history or recompute_daily_summary leaves main: the run
\* ends Failed, never Skip or Done, and no later stage of the run has run.
C9_WriteFailuresPropagate ==
    /\ exc # NoExc =>
          (pc = "Failed" /\ ~payload.none /\ exc.raisedIn \in WriteStages)
    /\ pc = "Failed" => exc # NoExc
    /\ pc = "Skip" => payload.none
    /\ pc = "Done" => (Archived /\ Normalized /\ summary.exists)
    /\ exc.raisedIn = "append_raw_log" => StoresAsBefore
    /\ exc.raisedIn = "append_temperature_history" =>
          (Archived /\ summary = before.summary)
    /\ exc.raisedIn = "recompute_daily_summary" => (Archived /\ Normalized)

\* a run failed in append_temperature_history on an observation, with a
\* summary of an earlier run in place
C9_Witness ==
    /\ pc = "Failed"
    /\ exc = Raised("KeyError", "append_temperature_history")
    /\ summary.exists
    /\ Len(DataRows(summary)) >= 1

\* C10: fetch_weather_data raises nothing and returns the decoded list,
\* unchanged, exactly when the HTTP call succeeded and the body decodes, outer
\* JSON to a string and that string to a list; for every other outcome it
\* returns None. It writes to none of the three files.
C10_FetcherResult ==
    /\ pc \notin {"Idle", "Fetch"} =>
          payload = IF Delivered(response) /\ DoubleEncodedList(response.body)
                    THEN Some(response.body.records)
                    ELSE None
    /\ pc \in {"Fetch", "Archive", "Skip"} => (StoresAsBefore /\ exc = NoExc)
    /\ exc.raisedIn \in WriteStages \cup {""}

\* fetch_weather_data has returned a list with an observation to a run that
\* found the files of an earlier run
C10_Witness ==
    /\ pc = "Archive"
    /\ payload = Some(response.body.records)
    /\ Len(payload.records) = 1
    /\ history.exists /\ rawLog.exists

\* the observation lists of the finished runs that Test(run) holds of, in
\* run order
PayloadsWhere(log, Test(_)) ==
    LET sel == SelectSeq(log, Test)
    IN  [i \in 1..Len(sel) |-> sel[i].payload.records]

\* the run's fetch gave a list
FetchSucceeded(r) == ~r.payload.none

\* the run's fetch gave a list and its append_raw_log returned
ArchiveReturned(r) == ~r.payload.none /\ r.exc.raisedIn # "append_raw_log"

\* the list of the run in progress, once its append_raw_log has returned
ArchivedNow == IF pc \in {"Normalize", "Aggregate"} THEN <<payload.records>> ELSE <<>>

RawRecords == [i \in 1..Len(rawLog.lines) |-> rawLog.lines[i].records]

\* C11 as stated: after any runs the raw log has one entry for each run whose
\* fetch succeeded, in run order, holding the list that run fetched.
C11_Original ==
    pc \in Resting => RawRecords = PayloadsWhere(runLog, FetchSucceeded)

\* the raw log holds one entry for each run whose append_raw_log returned, in
\* run order, with the list that run fetched and ascending fetched_at
RawLogOfArchivedRuns ==
    /\ RawRecords = PayloadsWhere(runLog, ArchiveReturned) \o ArchivedNow
    /\ rawLog.exists <=> rawLog.lines # <<>>
    /\ \A i, j \in 1..Len(rawLog.lines) :
          i < j => rawLog.lines[i].fetched_at < rawLog.lines[j].fetched_at

\* a step keeps the raw log's content as a prefix of its new content
RawLogGrows ==
    /\ rawLog.exists => rawLog'.exists
    /\ IsPrefix(rawLog.lines, rawLog'.lines)

\* C11, amended: each run whose fetch succeeds and whose append_raw_log
\* returns appends exactly one entry {fetched_at, records} with the list it
\* fetched; a skipped run, and a run whose append_raw_log raises, appends
\* none; every step keeps the previous content of the raw log as a prefix of
\* the new; so the entries are those of the runs whose append_raw_log
\* returned, in run order.
C11_RawLogAppendOnly == []RawLogOfArchivedRuns /\ [][RawLogGrows]_vars

\* two runs have each archived a list of their own
C11_Witness ==
    /\ pc \in Terminal
    /\ Len(runLog) = 2
    /\ Len(rawLog.lines) = 2
    /\ Len(rawLog.lines[1].records) = 1
    /\ Len(rawLog.lines[2].records) = 1
    /\ rawLog.lines[1].records # rawLog.lines[2].records

\* the raw log as the run found it plus this run's entry
RawLogArchived ==
    rawLog = File(before.rawLog.lines \o <<RawLogEntry(run, payload.records)>>)

\* the history as the run found it plus the header, if it was absent, and one
\* row for every observation of the payload, in payload order
HistoryNormalized ==
    history = File(before.history.lines
                   \o (IF before.history.exists THEN <<>> ELSE <<HistoryHeader>>)
                   \o [i \in 1..Len(payload.records) |-> HistoryRow(payload.records[i])])

\* the summary is the one computed from the history
SummaryAggregated == summary = File(SummaryLines(Aggregates(history.lines)))

\* what each position of main finds done: every earlier step once, no later
\* step at all
StageEffects ==
    /\ pc = "Archive" =>
          /\ ~payload.none
          /\ StoresAsBefore
    /\ pc = "Normalize" =>
          /\ ~payload.none
          /\ RawLogArchived
          /\ history = before.history /\ summary = before.summary
    /\ pc = "Aggregate" =>
          /\ ~payload.none
          /\ RawLogArchived
          /\ HistoryNormalized
          /\ summary = before.summary
    /\ pc = "Done" =>
          /\ ~payload.none
          /\ RawLogArchived
          /\ HistoryNormalized
          /\ SummaryAggregated

\* a change of position follows the order Fetch, Archive, Normalize,
\* Aggregate, Done, or leaves it for Skip (from Fetch) or Failed (from a write
\* stage)
StepOrder ==
    pc' # pc =>
       \/ pc \in Resting /\ pc' = "Fetch"
       \/ pc = "Fetch" /\ pc' = "Skip"
       \/ pc = "Fetch" /\ pc' = "Archive" /\ ~payload'.none
       \/ pc = "Archive" /\ pc' = "Normalize"
       \/ pc = "Normalize" /\ pc' = "Aggregate"
       \/ pc = "Aggregate" /\ pc' = "Done"
       \/ pc \in {"Archive", "Normalize", "Aggregate"} /\ pc' = "Failed"

\* C12: within a run Archive starts only after Fetch has returned a list,
\* Normalize only after Archive has completed, Aggregate only after Normalize
\* has completed with its rows in the history, and Done is reported only
\* after Aggregate has completed; no step runs twice and none is skipped on
\* the path to Done.
C12_StepOrdering == []StageEffects /\ [][StepOrder]_vars

\* a second run has reached Done with an observation of its own
C12_Witness ==
    /\ pc = "Done"
    /\ run = 2
    /\ before.history.exists
    /\ Len(payload.records) = 1

\* the retries of the current fetch stay within Retry(total=5): at most
\* RetryTotal + 1 attempts
AttemptsBounded == attempt \in 0..RetryTotal

\* a finished run has exactly one outcome, the one recorded for it
OneOutcome ==
    /\ pc \in Terminal =>
          /\ Len(runLog) = run
          /\ runLog[run].outcome = pc
    /\ pc \notin Resting => Len(runLog) = run - 1
    /\ \A i \in 1..Len(runLog) : runLog[i].outcome \in Terminal

InRun == pc \notin Resting

Ended == pc \in Terminal

\* C13: every run terminates: a fetch makes at most the initial attempt plus
\* 5 retries, and every run that has started eventually reaches exactly one
\* of Skip, Done and Failed, also when every attempt is answered with a
\* retryable status.
C13_RunTerminates ==
    /\ []AttemptsBounded
    /\ []OneOutcome
    /\ InRun ~> Ended

\* a run was skipped after every attempt got a status of the forcelist
C13_Witness ==
    /\ pc = "Skip"
    /\ response.kind = "http"
    /\ response.status \in StatusForcelist

\* float() raises on the temperature of observation r
NonNumeric(r) ==
    /\ "TEMPERATURE" \in DOMAIN r
    /\ ParseFloat(CsvText(r.TEMPERATURE)).err

\* float() raises on the temperature column of a history row
NonNumericRow(row) == ParseFloat(row[6]).err

\* C14 as stated: a run whose payload has an observation with a non-numeric
\* temperature fails before recompute_daily_summary starts, so the history
\* the Aggregator reads never has a row with a non-numeric temperature.
C14_Original ==
    pc = "Aggregate" =>
        /\ \A i \in 1..Len(payload.records) : ~NonNumeric(payload.records[i])
        /\ \A i \in 1..Len(DataRows(history)) : ~NonNumericRow(DataRows(history)[i])

\* every observation has the six fields, a date fromisoformat parses and a
\* temperature float() parses
WellFormed(p) ==
    /\ ~p.none
    /\ \A i \in 1..Len(p.records) :
          /\ RowError(p.records[i]) = ""
          /\ ~NonNumeric(p.records[i])

\* no run so far met a storage fault
StorageWorked == \A i \in 1..Len(runLog) : runLog[i].exc.type # "OSError"

\* C15 as stated: with working local storage a run whose fetch gives a
\* well-formed payload ends Done with the summary recomputed, whatever the
\* earlier runs did and left in the history.
C15_Original ==
    (pc \in Terminal /\ StorageWorked /\ WellFormed(payload)) =>
        /\ pc = "Done"
        /\ SummaryAggregated

\* observation r lacks one of the six fields or has a RECORDED_DATE that
\* fromisoformat rejects
Malformed(r) ==
    \/ Fields \ DOMAIN r # {}
    \/ "RECORDED_DATE" \in DOMAIN r /\ IsoDate(r.RECORDED_DATE) = ""

\* observation i is the first malformed one of the payload
FirstMalformed(i) ==
    /\ i \in 1..Len(payload.records)
    /\ Malformed(payload.records[i])
    /\ \A j \in 1..(i - 1) : ~Malformed(payload.records[j])

\* append_temperature_history raised while writing the rows
NormalizeRaised ==
    /\ pc = "Failed"
    /\ exc.raisedIn = "append_temperature_history"
    /\ exc.type \in {"KeyError", "ValueError"}

\* the history as the run found it plus the header, if it was absent, and
\* the rows of observations 1..n
HistoryGained(n) ==
    history = File(before.history.lines
                   \o (IF before.history.exists THEN <<>> ELSE <<HistoryHeader>>)
                   \o [j \in 1..n |-> HistoryRow(payload.records[j])])

\* C16: when append_temperature_history raises on the i-th observation
\* (missing field or unparseable RECORDED_DATE), the run ends Failed, the raw
\* log has gained this run's entry, the history has gained the header (if it
\* was absent) and exactly the rows of observations 1..i-1 in input order,
\* and the summary is as before the run; a payload with such an observation
\* never gets past append_temperature_history.
C16_NormalizeFailure ==
    /\ NormalizeRaised =>
          \E i \in 1..Len(payload.records) :
             /\ FirstMalformed(i)
             /\ RawLogArchived
             /\ HistoryGained(i - 1)
             /\ summary = before.summary
    /\ pc \in {"Aggregate", "Done"} =>
          \A i \in 1..Len(payload.records) : ~Malformed(payload.records[i])
    /\ (pc = "Failed" /\ exc.raisedIn = "recompute_daily_summary") =>
          \A i \in 1..Len(payload.records) : ~Malformed(payload.records[i])

\* the second observation of a payload was the malformed one: its row is
\* missing, the first one's is there
C16_Witness ==
    /\ NormalizeRaised
    /\ FirstMalformed(2)
    /\ HistoryGained(1)
    /\ ~before.history.exists

\* some row of the history has a temperature float() raises on
HistoryUnparseable ==
    \E i \in 1..Len(DataRows(history)) : NonNumericRow(DataRows(history)[i])

\* C17: a call of recompute_daily_summary that does not complete its read of
\* the history leaves the summary file as it was: with no history file it
\* returns and the summary is neither created nor modified; when the
\* temperature of a history row does not parse it raises and the summary
\* keeps its exact content.
C17_SummaryUntouched ==
    [][/\ ~history.exists => (summary' = summary /\ pc' = "Returned")
       /\ HistoryUnparseable => (summary' = summary /\ pc' = "Raised")]_vars

\* a call raised on a history row with a temperature that does not parse,
\* beside a summary with rows from an earlier computation
C17_Witness ==
    /\ calls >= 1
    /\ pc = "Raised"
    /\ exc = Raised("ValueError", "recompute_daily_summary")
    /\ HistoryUnparseable
    /\ Len(DataRows(summary)) >= 1
    /\ summary = before.summary

\* every (date, station) of summary file old is in summary file new, with a
\* max_temperature that is not lower and a min_temperature that is not higher
SummaryMonotone(old, new) ==
    \A i \in 1..Len(DataRows(old)) :
        \E j \in 1..Len(DataRows(new)) :
            LET was == DataRows(old)[i]
                now == DataRows(new)[j]
            IN /\ now[1] = was[1]
               /\ now[2] = was[2]
               /\ ~FloatLT(now[3], was[3])
               /\ ~FloatGT(now[4], was[4])

\* only a run that ends Done changes the summary file: the summary a run
\* starts with is the one the last Done run left
SummaryChangesAtDone == summary' # summary => pc' = "Done"

\* C18: for two successive runs that end Done, with any runs that change no
\* summary between them, every (date, station) of the summary after the
\* earlier is in the summary after the later, its max_temperature not
\* decreased and its min_temperature not increased.
C18_MonotonicSummary ==
    /\ [](pc = "Done" => SummaryMonotone(before.summary, summary))
    /\ [][SummaryChangesAtDone]_vars

\* a later Done run raised the maximum of a key the earlier Done run had put
\* in the summary
C18_Witness ==
    /\ pc = "Done"
    /\ run = 2
    /\ Len(DataRows(before.summary)) = 1
    /\ Len(DataRows(summary)) = 1
    /\ FloatGT(DataRows(summary)[1][3], DataRows(before.summary)[1][3])

\* both overlapping calls have returned
AllDone == \A p \in Procs : proc[p].at = "done"

\* the history lines that are the header
HeaderLines == {i \in 1..Len(history.lines) : history.lines[i] = HistoryHeader}

\* the rows of a payload
PayloadRows(recs) == [i \in 1..Len(recs) |-> HistoryRow(recs[i])]

\* the header is the first line and no other, and the rows are those of the
\* call that started first, then those of the other
HeaderOnceInRunOrder ==
    /\ HeaderLines = {1}
    /\ history.lines = <<HistoryHeader>>
                       \o PayloadRows(proc[trace.started[1]].payload)
                       \o PayloadRows(proc[trace.started[2]].payload)

\* a call hands on a header exactly when it saw no file, and every line of
\* the file was written once by one call
WritesAccounted ==
    /\ Len(trace.owner) = Len(history.lines)
    /\ \A p \in Procs :
          proc[p].at = "done" =>
             Cardinality({i \in HeaderLines : trace.owner[i] = p})
                = (IF proc[p].fileExists THEN 0 ELSE 1)

\* C19: append_temperature_history has no mutual exclusion: calls that do
\* not overlap leave one header, first, and the rows in run order; each call
\* writes a header exactly when its existence check saw no file, so calls
\* that overlap on an absent file can both write one and their rows can
\* interleave (the state of C19_Witness).
C19_NoMutualExclusion ==
    /\ WritesAccounted
    /\ (AllDone /\ ~trace.overlapped) => HeaderOnceInRunOrder

\* rows i < j < k of the history, none a header, the outer two written by
\* one call and the middle one by the other
RowsInterleaved ==
    \E i, j, k \in 1..Len(history.lines) \ HeaderLines :
        /\ i < j /\ j < k
        /\ trace.owner[i] = trace.owner[k]
        /\ trace.owner[j] # trace.owner[i]

\* two overlapping calls on an absent history both saw it absent, both wrote
\* a header, and their rows interleave
C19_Witness ==
    /\ AllDone
    /\ trace.overlapped
    /\ ~before.history.exists
    /\ \A p \in Procs : ~proc[p].fileExists
    /\ Cardinality(HeaderLines) = 2
    /\ RowsInterleaved

====
